---- MODULE Spec2Model ----
(***************************************************************************)
(* Model of src/app.py: the /upload handler that reconciles a spreadsheet  *)
(* of completed skill badges against the 'participants' table, and the    *)
(* normalize_name helper it matches labels with.                           *)
(*                                                                         *)
(* Text is modelled as a sequence of one-character strings, so that        *)
(* lower-casing, replacing, trimming, splitting and sorting are computed   *)
(* character by character as Python computes them.                         *)
(***************************************************************************)
EXTENDS Integers, Sequences, FiniteSets, TLC

VARIABLES
    supabase,             \* module-level client: TRUE when create_client succeeded
    store,                \* the 'participants' table: [cols, recs]
    store0,               \* history: the table as it was when the request arrived
    pc,                   \* position of the /upload handler
    column_map,           \* normalized key -> column name (dict, insertion ordered)
    df,                   \* the parsed file: [columns, rows]
    index,                \* next row of df.iterrows()
    update_log,           \* per-row messages
    total_updates,
    not_found_log,
    mismatched_labs_log,  \* set of mismatch messages
    result,               \* the HTTP response
    calls,                \* history: update calls issued to the store, in order
    visited,              \* history: row numbers the loop body ran for, in order
    log_rows,             \* history: log_rows[k] is the row that appended update_log[k]
    raw, key, key2, npc   \* normalize_name applied once and twice to a raw label

vars == <<supabase, store, store0, pc, column_map, df, index, update_log,
          total_updates, not_found_log, mismatched_labs_log, result, calls,
          visited, log_rows, raw, key, key2, npc>>

uploadVars == <<supabase, store, store0, pc, column_map, df, index, update_log,
                total_updates, not_found_log, mismatched_labs_log, result, calls,
                visited, log_rows>>

normVars == <<raw, key, key2, npc>>

-----------------------------------------------------------------------------
(* Bounds *)

\* longest file (number of data rows) the parser hands to the loop
MaxRows == 2

\* number of fragments a raw label is assembled from for normalize_name
MaxFrags == 3

-----------------------------------------------------------------------------
(* Python text primitives *)

LowerTable ==
    ("A" :> "a") @@ ("B" :> "b") @@ ("C" :> "c") @@ ("D" :> "d") @@ ("E" :> "e") @@ ("F" :> "f") @@
    ("G" :> "g") @@ ("H" :> "h") @@ ("I" :> "i") @@ ("J" :> "j") @@ ("K" :> "k") @@ ("L" :> "l") @@
    ("M" :> "m") @@ ("N" :> "n") @@ ("O" :> "o") @@ ("P" :> "p") @@ ("Q" :> "q") @@ ("R" :> "r") @@
    ("S" :> "s") @@ ("T" :> "t") @@ ("U" :> "u") @@ ("V" :> "v") @@ ("W" :> "w") @@ ("X" :> "x") @@
    ("Y" :> "y") @@ ("Z" :> "z")

AlnumLower == {
    "a", "b", "c", "d", "e", "f", "g", "h", "i", "j", "k", "l",
    "m", "n", "o", "p", "q", "r", "s", "t", "u", "v", "w", "x",
    "y", "z", "0", "1", "2", "3", "4", "5", "6", "7", "8", "9" }

Ord ==
    (" " :> 32) @@ ("!" :> 33) @@ ("#" :> 35) @@ ("$" :> 36) @@ ("%" :> 37) @@ ("&" :> 38) @@
    ("'" :> 39) @@ ("(" :> 40) @@ (")" :> 41) @@ ("*" :> 42) @@ ("+" :> 43) @@ ("," :> 44) @@
    ("-" :> 45) @@ ("." :> 46) @@ ("/" :> 47) @@ ("0" :> 48) @@ ("1" :> 49) @@ ("2" :> 50) @@
    ("3" :> 51) @@ ("4" :> 52) @@ ("5" :> 53) @@ ("6" :> 54) @@ ("7" :> 55) @@ ("8" :> 56) @@
    ("9" :> 57) @@ (":" :> 58) @@ (";" :> 59) @@ ("<" :> 60) @@ ("=" :> 61) @@ (">" :> 62) @@
    ("?" :> 63) @@ ("@" :> 64) @@ ("A" :> 65) @@ ("B" :> 66) @@ ("C" :> 67) @@ ("D" :> 68) @@
    ("E" :> 69) @@ ("F" :> 70) @@ ("G" :> 71) @@ ("H" :> 72) @@ ("I" :> 73) @@ ("J" :> 74) @@
    ("K" :> 75) @@ ("L" :> 76) @@ ("M" :> 77) @@ ("N" :> 78) @@ ("O" :> 79) @@ ("P" :> 80) @@
    ("Q" :> 81) @@ ("R" :> 82) @@ ("S" :> 83) @@ ("T" :> 84) @@ ("U" :> 85) @@ ("V" :> 86) @@
    ("W" :> 87) @@ ("X" :> 88) @@ ("Y" :> 89) @@ ("Z" :> 90) @@ ("[" :> 91) @@ ("]" :> 93) @@
    ("^" :> 94) @@ ("_" :> 95) @@ ("a" :> 97) @@ ("b" :> 98) @@ ("c" :> 99) @@ ("d" :> 100) @@
    ("e" :> 101) @@ ("f" :> 102) @@ ("g" :> 103) @@ ("h" :> 104) @@ ("i" :> 105) @@ ("j" :> 106) @@
    ("k" :> 107) @@ ("l" :> 108) @@ ("m" :> 109) @@ ("n" :> 110) @@ ("o" :> 111) @@ ("p" :> 112) @@
    ("q" :> 113) @@ ("r" :> 114) @@ ("s" :> 115) @@ ("t" :> 116) @@ ("u" :> 117) @@ ("v" :> 118) @@
    ("w" :> 119) @@ ("x" :> 120) @@ ("y" :> 121) @@ ("z" :> 122) @@ ("{" :> 123) @@ ("|" :> 124) @@
    ("}" :> 125) @@ ("~" :> 126)

Whitespace == {" ", "\t", "\n", "\r", "\f"}

\* str.lower()
str_lower(s) == [i \in 1..Len(s) |-> IF s[i] \in DOMAIN LowerTable THEN LowerTable[s[i]] ELSE s[i]]

StartsWith(s, old) == Len(old) <= Len(s) /\ \A i \in 1..Len(old) : s[i] = old[i]

\* str.replace(old, new): leftmost non-overlapping occurrences, old non-empty
RECURSIVE str_replace(_, _, _)
str_replace(s, old, new) ==
    IF s = <<>> THEN <<>>
    ELSE IF StartsWith(s, old)
         THEN new \o str_replace(SubSeq(s, Len(old) + 1, Len(s)), old, new)
         ELSE <<Head(s)>> \o str_replace(Tail(s), old, new)

RECURSIVE str_lstrip(_, _)
str_lstrip(s, chars) ==
    IF s # <<>> /\ Head(s) \in chars THEN str_lstrip(Tail(s), chars) ELSE s

RECURSIVE str_rstrip(_, _)
str_rstrip(s, chars) ==
    IF s # <<>> /\ s[Len(s)] \in chars THEN str_rstrip(SubSeq(s, 1, Len(s) - 1), chars) ELSE s

\* str.strip() / str.strip(chars)
str_strip(s, chars) == str_rstrip(str_lstrip(s, chars), chars)

\* s without its leading run of characters outside a-z0-9
RECURSIVE drop_non_alnum(_)
drop_non_alnum(s) ==
    IF s # <<>> /\ Head(s) \notin AlnumLower THEN drop_non_alnum(Tail(s)) ELSE s

\* re.sub(r'[^a-z0-9]+', '_', s): every maximal run outside a-z0-9 becomes one '_'
RECURSIVE re_sub_non_alnum(_)
re_sub_non_alnum(s) ==
    IF s = <<>> THEN <<>>
    ELSE IF Head(s) \in AlnumLower
         THEN <<Head(s)>> \o re_sub_non_alnum(Tail(s))
         ELSE <<"_">> \o re_sub_non_alnum(drop_non_alnum(s))

\* str.split(sep) for a one-character separator
RECURSIVE str_split(_, _)
str_split(s, sep) ==
    IF \A i \in 1..Len(s) : s[i] # sep THEN <<s>>
    ELSE LET i == CHOOSE j \in 1..Len(s) : s[j] = sep /\ \A k \in 1..(j - 1) : s[k] # sep
         IN  <<SubSeq(s, 1, i - 1)>> \o str_split(SubSeq(s, i + 1, Len(s)), sep)

\* s < t in Python's string order (code points, a proper prefix first)
RECURSIVE str_less(_, _)
str_less(s, t) ==
    IF t = <<>> THEN FALSE
    ELSE IF s = <<>> THEN TRUE
    ELSE IF Head(s) # Head(t) THEN Ord[Head(s)] < Ord[Head(t)]
    ELSE str_less(Tail(s), Tail(t))

\* sorted(list(a_set_of_strings))
RECURSIVE sorted(_)
sorted(S) ==
    IF S = {} THEN <<>>
    ELSE LET m == CHOOSE x \in S : \A y \in S \ {x} : str_less(x, y)
         IN  <<m>> \o sorted(S \ {m})

-----------------------------------------------------------------------------
(* normalize_name *)

SkillBadgeTag == <<"[", "s", "k", "i", "l", "l", " ", "b", "a", "d", "g", "e", "]">>

\* the helper without its final s.strip('_')
normalize_name_keeps_edges(name) ==
    LET s1 == str_lower(name)
        s2 == str_strip(str_replace(s1, SkillBadgeTag, <<>>), Whitespace)
        s3 == str_replace(s2, <<"g", "e", "n", " ", "a", "i">>, <<"g", "e", "n", "a", "i">>)
    IN  re_sub_non_alnum(s3)

normalize_name(name) ==
    LET s1 == str_lower(name)
        s2 == str_strip(str_replace(s1, SkillBadgeTag, <<>>), Whitespace)
        s3 == str_replace(s2, <<"g", "e", "n", " ", "a", "i">>, <<"g", "e", "n", "a", "i">>)
        s4 == re_sub_non_alnum(s3)
    IN  str_strip(s4, {"_"})

-----------------------------------------------------------------------------
(* pandas cells, Python None and dicts *)

NaN == <<"NaN">>        \* a missing cell, as pandas reads an empty one
None == <<"None">>

pd_notna(x) == x # NaN

\* bool(str): a string is truthy when it is neither None nor empty
Truthy(x) == x # None /\ x # <<>>

\* A dict is the sequence of its <<key, value>> items in insertion order.
DictHas(d, k) == \E i \in 1..Len(d) : d[i][1] = k

DictKeys(d) == [i \in 1..Len(d) |-> d[i][1]]

dict_get(d, k) ==
    IF DictHas(d, k) THEN d[CHOOSE i \in 1..Len(d) : d[i][1] = k][2] ELSE None

dict_set(d, k, v) ==
    IF DictHas(d, k)
    THEN [i \in 1..Len(d) |-> IF d[i][1] = k THEN <<k, v>> ELSE d[i]]
    ELSE Append(d, <<k, v>>)

-----------------------------------------------------------------------------
(* The participants table and the store's two operations *)

TABLE_NAME == "participants"

EmailCol == <<"e", "m", "a", "i", "l">>
NameCol == <<"n", "a", "m", "e">>
Yes == <<"Y", "e", "s">>
Unset == <<>>

Participant(cols, email, name) ==
    [c \in {cols[i] : i \in 1..Len(cols)} |->
        IF c = EmailCol THEN email ELSE IF c = NameCol THEN name ELSE Unset]

ColsPlain == << EmailCol, NameCol, <<"f", "o", "o">>, <<"B", "a", "r">> >>

\* "Foo" and "foo" normalize alike; "_" normalizes to the empty key
ColsOdd == << EmailCol, NameCol, <<"F", "o", "o">>, <<"_">>, <<"f", "o", "o">> >>

Table(cols) ==
    [cols |-> cols,
     recs |-> << Participant(cols, <<"a", "@", "x">>, <<"A", "l">>), Participant(cols, <<"b", "@", "x">>, <<"B", "o">>) >>]

Tables == { [cols |-> ColsPlain, recs |-> <<>>], Table(ColsPlain), Table(ColsOdd) }

\* supabase.table(TABLE_NAME).select("*").limit(1).execute().data
select_limit_1(st) == IF st.recs = <<>> THEN <<>> ELSE <<st.recs[1]>>

\* response.data[0].keys(), in the record's column order
record_keys(st) == st.cols

Matches(rec, email) == rec[EmailCol] = email

ApplyPayload(rec, update_data) ==
    [c \in DOMAIN rec |-> IF DictHas(update_data, c) THEN dict_get(update_data, c) ELSE rec[c]]

\* .update(update_data).eq('email', email): the table after the call
store_update(st, update_data, email) ==
    [st EXCEPT !.recs = [i \in 1..Len(st.recs) |->
        IF Matches(st.recs[i], email) THEN ApplyPayload(st.recs[i], update_data)
        ELSE st.recs[i]]]

\* the post-update records of the rows the filter selected
updated_records(st, update_data, email) ==
    LET hit(rec) == Matches(rec, email)
        old == SelectSeq(st.recs, hit)
    IN  [i \in 1..Len(old) |-> ApplyPayload(old[i], update_data)]

CountAbsent == [present |-> FALSE, value |-> 0]
Count(n) == [present |-> TRUE, value |-> n]

\* What .execute() of an update may do: raise (the write lost or already
\* applied), or return some records (none when the caller asked for a minimal
\* return or no row matched) and a count (absent unless a count was requested).
UpdateOutcomes(st, update_data, email) ==
    LET after == store_update(st, update_data, email)
        recs == updated_records(st, update_data, email)
    IN  { [kind |-> "raise", store |-> s, data |-> <<>>, count |-> CountAbsent] :
              s \in {st, after} }
        \cup
        { [kind |-> "return", store |-> after, data |-> d, count |-> c] :
              d \in {<<>>, recs}, c \in {CountAbsent, Count(Len(recs))} }

-----------------------------------------------------------------------------
(* The uploaded file *)

required_columns == {"User Name", "User Email", "Names of Completed Skill Badges"}

Row(name, email, labs) == [name |-> name, email |-> email, labs |-> labs]

\* (User Name, User Email, Names of Completed Skill Badges) of the rows a file
\* is made of:
\*   Al, a@x, 'Foo | [Skill Badge] Bar'    two labels, one of them tagged
\*   -,  ' b@x ', 'Zed|foo| |Ab|Zed'       no name, padded email, unmatched labels
\*   Al, -, 'Foo'                          missing email
\*   Bo, '  ', 'Foo'                       whitespace-only email
\*   Al, a@x, 'Email'                      a label that names the email column
\*   Bo, b@x, '??|Zed'                     a label whose key is empty
\*   Cy, c@x, '  '                         blank label string
RowCatalogue == {
    Row(<<"A", "l">>, <<"a", "@", "x">>, <<"F", "o", "o", " ", "|", " ", "[", "S", "k", "i", "l", "l", " ", "B", "a", "d", "g", "e", "]", " ", "B", "a", "r">>),
    Row(NaN, <<" ", "b", "@", "x", " ">>, <<"Z", "e", "d", "|", "f", "o", "o", "|", " ", "|", "A", "b", "|", "Z", "e", "d">>),
    Row(<<"A", "l">>, NaN, <<"F", "o", "o">>),
    Row(<<"B", "o">>, <<" ", " ">>, <<"F", "o", "o">>),
    Row(<<"A", "l">>, <<"a", "@", "x">>, <<"E", "m", "a", "i", "l">>),
    Row(<<"B", "o">>, <<"b", "@", "x">>, <<"?", "?", "|", "Z", "e", "d">>),
    Row(<<"C", "y">>, <<"c", "@", "x">>, <<" ", " ">>) }

RowSeqs == UNION { [1..n -> RowCatalogue] : n \in 0..MaxRows }

\* pd.read_csv / pd.read_excel results: frames lacking a required column, and
\* frames with all three
Frames ==
    { [columns |-> required_columns \ {c}, rows |-> <<>>] : c \in required_columns }
    \cup { [columns |-> required_columns, rows |-> rs] : rs \in RowSeqs }

NoFrame == [columns |-> {}, rows |-> <<>>]

-----------------------------------------------------------------------------
(* upload_file, piece by piece *)

\* {normalize_name(col): col for col in original_columns}
RECURSIVE build_column_map(_, _)
build_column_map(cols, d) ==
    IF cols = <<>> THEN d
    ELSE build_column_map(Tail(cols), dict_set(d, normalize_name(Head(cols)), Head(cols)))

has_required_columns(frame) == \A col \in required_columns : col \in frame.columns

\* user_name = str(user_name_raw).strip() if pd.notna(user_name_raw) else email
user_name_of(row, email) ==
    IF pd_notna(row.name) THEN str_strip(row.name, Whitespace) ELSE email

\* pd.notna(completed_labs_str) and str(completed_labs_str).strip()
has_labs(completed_labs_str) ==
    pd_notna(completed_labs_str) /\ str_strip(completed_labs_str, Whitespace) # <<>>

\* [lab.strip() for lab in str(completed_labs_str).split('|')]
completed_labs_of(completed_labs_str) ==
    LET parts == str_split(completed_labs_str, "|")
    IN  [i \in 1..Len(parts) |-> str_strip(parts[i], Whitespace)]

MismatchSuffix == <<"'", " ", "f", "r", "o", "m", " ", "f", "i", "l", "e", " ", "d", "i", "d", " ", "n", "o", "t", " ", "m", "a", "t", "c", "h", " ", "a", "n", "y", " ", "d", "a", "t", "a", "b", "a", "s", "e", " ", "c", "o", "l", "u", "m", "n", ".">>

\* the message with the label normalized instead of verbatim
mismatch_message_normalized(lab_name) ==
    <<"'">> \o normalize_name(lab_name) \o MismatchSuffix

mismatch_message(lab_name) ==
    <<"'">> \o str_strip(lab_name, Whitespace) \o MismatchSuffix

\* the payload rebuilt for each label instead of extended
stage_replacing(update_data, original_column_name) == << <<original_column_name, Yes>> >>

\* update_data[original_column_name] = "Yes"
stage(update_data, original_column_name) == dict_set(update_data, original_column_name, Yes)

\* the loop over completed_labs: [update_data, mismatched] after the labels
RECURSIVE stage_labs(_, _, _)
stage_labs(completed_labs, cmap, acc) ==
    IF completed_labs = <<>> THEN acc
    ELSE LET lab_name == Head(completed_labs)
             original_column_name == dict_get(cmap, normalize_name(lab_name))
             next == IF lab_name = <<>> THEN acc
                     ELSE IF Truthy(original_column_name)
                          THEN [acc EXCEPT !.update_data = stage(@, original_column_name)]
                          ELSE [acc EXCEPT !.mismatched = @ \cup {mismatch_message(lab_name)}]
         IN  stage_labs(Tail(completed_labs), cmap, next)

NothingStaged == [update_data |-> <<>>, mismatched |-> {}]

\* a count that is absent taken for a success
is_success_or_absent(count) == count.present => count.value > 0

\* count is not None and count > 0
is_success(count) == count.present /\ count.value > 0

UpdatedLine(user_name, update_data) ==
    [kind |-> "Updated", user |-> user_name, n |-> Len(update_data), labs |-> DictKeys(update_data)]

NoNewLine(user_name) == [kind |-> "NoNew", user |-> user_name]

FailedLine(user_name, e) == [kind |-> "FAILED", user |-> user_name, error |-> e]

\* The body of the inner try, after .execute(): either an exception, or the
\* line to append and the amount added to total_updates.
try_update(o, user_name, update_data) ==
    IF o.kind = "raise"
    THEN [raised |-> TRUE, error |-> "store error"]
    ELSE IF o.data = <<>>
    THEN [raised |-> TRUE, error |-> "list index out of range"]
    ELSE IF NameCol \notin DOMAIN o.data[1]
    THEN [raised |-> TRUE, error |-> "'name'"]
    ELSE IF is_success(o.count)
    THEN [raised |-> FALSE, line |-> UpdatedLine(user_name, update_data), added |-> Len(update_data)]
    ELSE [raised |-> FALSE, line |-> NoNewLine(user_name), added |-> 0]

\* every exception left to the handler of the whole request
except_handler_outer_only(site) == "request"

\* which except clause catches an exception raised at a site: the try around
\* the update call, or the try around the whole processing
except_handler(site) == IF site = "update" THEN "row" ELSE "request"

\* the row's except clause swallowing the error
on_row_exception_silent(log, user_name, e) == log

\* except Exception as e: update_log.append(f"FAILED to update ...")
on_row_exception(log, user_name, e) == Append(log, FailedLine(user_name, e))

Error(status, kind) == [status |-> status, kind |-> kind]

NoResult == [status |-> 0, kind |-> "none"]

Success(total, updates, users_not_found, mismatched) ==
    [status |-> 200, kind |-> "ok", total |-> total, updates |-> updates,
     users_not_found |-> users_not_found, mismatched_lab_names |-> sorted(mismatched)]
-----------------------------------------------------------------------------
(* normalize_name on bounded raw labels *)

Fragments == { <<"a">>, <<"G">>, <<"1">>, <<" ">>, <<"_">>, <<"-">>, <<"[">>, <<"]">>,
               <<"[", "S", "k", "i", "l", "l", " ", "B", "a", "d", "g", "e", "]">>, <<"[", "s", "k", "i", "l", "l", " ">>, <<"b", "a", "d", "g", "e", "]">>, <<"G", "e", "n">>, <<" ", "A", "I">> }

RECURSIVE Concat(_)
Concat(fs) == IF fs = <<>> THEN <<>> ELSE Head(fs) \o Concat(Tail(fs))

RawLabels == { Concat(fs) : fs \in UNION { [1..n -> Fragments] : n \in 0..MaxFrags } }

InitNorm ==
    /\ raw \in RawLabels
    /\ key = <<>>
    /\ key2 = <<>>
    /\ npc = "raw"

NormalizeOnce ==
    /\ npc = "raw"
    /\ key' = normalize_name(raw)
    /\ npc' = "once"
    /\ UNCHANGED <<raw, key2>>

NormalizeTwice ==
    /\ npc = "once"
    /\ key2' = normalize_name(key)
    /\ npc' = "twice"
    /\ UNCHANGED <<raw, key>>
-----------------------------------------------------------------------------
(* The /upload request *)

Init ==
    /\ supabase \in BOOLEAN
    /\ store \in Tables
    /\ store0 = store
    /\ pc = "start"
    /\ column_map = <<>>
    /\ df = NoFrame
    /\ index = 1
    /\ update_log = <<>>
    /\ total_updates = 0
    /\ not_found_log = <<>>
    /\ mismatched_labs_log = {}
    /\ result = NoResult
    /\ calls = <<>>
    /\ visited = <<>>
    /\ log_rows = <<>>
    /\ raw = <<>>
    /\ key = <<>>
    /\ key2 = <<>>
    /\ npc = "off"

Respond(r) ==
    /\ result' = r
    /\ pc' = "done"

\* if not supabase: return 500
RejectNotInitialized ==
    /\ pc = "start"
    /\ ~supabase
    /\ Respond(Error(500, "NotInitialized"))
    /\ UNCHANGED <<supabase, store, store0, column_map, df, index, update_log,
                   total_updates, not_found_log, mismatched_labs_log, calls,
                   visited, log_rows, normVars>>

\* if 'file' not in request.files: return 400
RejectNoFilePart ==
    /\ pc = "start"
    /\ supabase
    /\ Respond(Error(400, "NoFilePart"))
    /\ UNCHANGED <<supabase, store, store0, column_map, df, index, update_log,
                   total_updates, not_found_log, mismatched_labs_log, calls,
                   visited, log_rows, normVars>>

\* if file.filename == '': return 400.  A file with a name is truthy, so the
\* final "unknown error" return of the handler is never reached.
RejectNoFileSelected ==
    /\ pc = "start"
    /\ supabase
    /\ Respond(Error(400, "NoFileSelected"))
    /\ UNCHANGED <<supabase, store, store0, column_map, df, index, update_log,
                   total_updates, not_found_log, mismatched_labs_log, calls,
                   visited, log_rows, normVars>>

\* The schema probe: it raises, returns no record, or yields the column map.
ProbeSchema ==
    /\ pc = "start"
    /\ supabase
    /\ \E raises \in BOOLEAN :
         IF raises
         THEN /\ except_handler("probe") = "request"
              /\ Respond(Error(500, "Exception"))
              /\ UNCHANGED column_map
         ELSE IF select_limit_1(store) = <<>>
         THEN /\ Respond(Error(500, "SchemaUnavailable"))
              /\ UNCHANGED column_map
         ELSE /\ column_map' = build_column_map(record_keys(store), <<>>)
              /\ pc' = "read"
              /\ UNCHANGED result
    /\ UNCHANGED <<supabase, store, store0, df, index, update_log,
                   total_updates, not_found_log, mismatched_labs_log, calls,
                   visited, log_rows, normVars>>

\* Reading the file (pd.read_excel for .xls/.xlsx names, pd.read_csv otherwise):
\* the decoder raises, a required column is missing, or the frame is kept and
\* the logs are created.
ReadFile ==
    /\ pc = "read"
    /\ \/ /\ except_handler("read") = "request"
          /\ Respond(Error(500, "Exception"))
          /\ UNCHANGED <<df, index, update_log, total_updates, not_found_log,
                         mismatched_labs_log>>
       \/ \E frame \in Frames :
            /\ df' = frame
            /\ IF has_required_columns(frame)
               THEN /\ update_log' = <<>>
                    /\ total_updates' = 0
                    /\ not_found_log' = <<>>
                    /\ mismatched_labs_log' = {}
                    /\ index' = 1
                    /\ pc' = "loop"
                    /\ UNCHANGED result
               ELSE /\ Respond(Error(400, "MissingColumns"))
                    /\ UNCHANGED <<index, update_log, total_updates, not_found_log,
                                   mismatched_labs_log>>
    /\ UNCHANGED <<supabase, store, store0, column_map, calls, visited, log_rows,
                   normVars>>

\* One iteration of `for index, row in df.iterrows()`.
ProcessRow ==
    /\ pc = "loop"
    /\ index <= Len(df.rows)
    /\ visited' = Append(visited, index)
    /\ LET row == df.rows[index]
           email_raw == row.email
           completed_labs_str == row.labs
           email == str_strip(email_raw, Whitespace)
           user_name == user_name_of(row, email)
           staged == stage_labs(completed_labs_of(completed_labs_str), column_map,
                                NothingStaged)
           update_data == staged.update_data
       IN  IF ~(pd_notna(email_raw) /\ has_labs(completed_labs_str))
           THEN /\ index' = index + 1
                /\ UNCHANGED <<pc, result, store, update_log, total_updates,
                               mismatched_labs_log, calls, log_rows>>
           ELSE /\ mismatched_labs_log' = mismatched_labs_log \cup staged.mismatched
                /\ IF update_data = <<>>
                   THEN /\ index' = index + 1
                        /\ UNCHANGED <<pc, result, store, update_log, total_updates,
                                       calls, log_rows>>
                   ELSE \E o \in UpdateOutcomes(store, update_data, email) :
                          LET t == try_update(o, user_name, update_data)
                          IN  /\ store' = o.store
                              /\ calls' = Append(calls, [row |-> index, email |-> email,
                                                         payload |-> update_data,
                                                         outcome |-> o])
                              /\ IF t.raised /\ except_handler("update") # "row"
                                 THEN /\ Respond(Error(500, "Exception"))
                                      /\ UNCHANGED <<index, update_log, total_updates,
                                                     log_rows>>
                                 ELSE /\ update_log' =
                                           IF t.raised
                                           THEN on_row_exception(update_log, user_name, t.error)
                                           ELSE Append(update_log, t.line)
                                      /\ total_updates' =
                                           IF t.raised THEN total_updates
                                           ELSE total_updates + t.added
                                      /\ log_rows' =
                                           IF Len(update_log') > Len(update_log)
                                           THEN Append(log_rows, index) ELSE log_rows
                                      /\ index' = index + 1
                                      /\ UNCHANGED <<pc, result>>
    /\ UNCHANGED <<supabase, store0, column_map, df, not_found_log, normVars>>

\* After the last row: final_log with the sorted mismatches, and the summary.
Finish ==
    /\ pc = "loop"
    /\ index > Len(df.rows)
    /\ Respond(Success(total_updates, update_log, not_found_log, mismatched_labs_log))
    /\ UNCHANGED <<supabase, store, store0, column_map, df, index, update_log,
                   total_updates, not_found_log, mismatched_labs_log, calls,
                   visited, log_rows, normVars>>

Next ==
    \/ RejectNotInitialized
    \/ RejectNoFilePart
    \/ RejectNoFileSelected
    \/ ProbeSchema
    \/ ReadFile
    \/ ProcessRow
    \/ Finish

Spec == Init /\ [][Next]_vars

-----------------------------------------------------------------------------
(* normalize_name applied to raw labels *)

IdleUpload ==
    /\ supabase = FALSE
    /\ store = [cols |-> ColsPlain, recs |-> <<>>]
    /\ store0 = store
    /\ pc = "idle"
    /\ column_map = <<>>
    /\ df = NoFrame
    /\ index = 1
    /\ update_log = <<>>
    /\ total_updates = 0
    /\ not_found_log = <<>>
    /\ mismatched_labs_log = {}
    /\ result = NoResult
    /\ calls = <<>>
    /\ visited = <<>>
    /\ log_rows = <<>>

NormInit == InitNorm /\ IdleUpload

NormNext ==
    \/ NormalizeOnce /\ UNCHANGED uploadVars
    \/ NormalizeTwice /\ UNCHANGED uploadVars

NormSpec == NormInit /\ [][NormNext]_vars

-----------------------------------------------------------------------------
(* Vocabulary of the properties, read off the file and the column map *)

Range(s) == { s[i] : i \in 1..Len(s) }

\* the trimmed non-empty label pieces of a row
Pieces(row) ==
    IF pd_notna(row.labs)
    THEN { str_strip(p, Whitespace) : p \in Range(str_split(row.labs, "|")) } \ {<<>>}
    ELSE {}

\* the loop body went past the email test and the label test for this row
Processed(row) == pd_notna(row.email) /\ has_labs(row.labs)

KeyInMap(p) == DictHas(column_map, normalize_name(p))

Matching(row) == { p \in Pieces(row) : KeyInMap(p) }

Unmatched(row) == { p \in Pieces(row) : ~KeyInMap(p) }

CallsOf(i) == { k \in 1..Len(calls) : calls[k].row = i }

LinesOf(i) == { j \in 1..Len(update_log) : log_rows[j] = i }

Quoted(p) == <<"'">> \o p \o MismatchSuffix

RECURSIVE SumPayloads(_)
SumPayloads(cs) ==
    IF cs = <<>> THEN 0 ELSE Len(Head(cs).payload) + SumPayloads(Tail(cs))

Ended == pc = "done"

EndedOk == pc = "done" /\ result.status = 200

-----------------------------------------------------------------------------
(* Properties *)

\* C1: row-scoped failure isolation. The loop body runs for the rows in source
\* order, each once; a raising update call leaves exactly one FAILED line for
\* its row; every row, also after a raise, gets the one call its labels stage
\* or none; and a run that read its file ends with the success response after
\* the last row.
RowFailureIsolation ==
    /\ visited = [k \in 1..Len(visited) |-> k]
    /\ pc = "loop" => Len(visited) = index - 1
    /\ \A k \in 1..Len(calls) :
         calls[k].outcome.kind = "raise" =>
           /\ Cardinality(LinesOf(calls[k].row)) = 1
           /\ \A j \in LinesOf(calls[k].row) : update_log[j].kind = "FAILED"
           /\ pc \in {"loop", "done"}
    /\ \A i \in Range(visited) :
         Cardinality(CallsOf(i)) =
           IF Processed(df.rows[i]) /\ Matching(df.rows[i]) # {} THEN 1 ELSE 0
    /\ (Ended /\ has_required_columns(df)) =>
         /\ result.status = 200
         /\ Len(visited) = Len(df.rows)

\* C1 witness: a finished run in which the first row's call raised and the
\* second row's call was still issued.
RaiseThenLaterRow ==
    /\ EndedOk
    /\ Len(calls) = 2
    /\ calls[1].outcome.kind = "raise"
    /\ calls[1].row = 1
    /\ calls[2].row = 2

\* C2: every update call that returns leaves exactly one line for its row: an
\* Updated line with the display name, the number of staged fields and their
\* names when the count is > 0, a No-new-updates line when it is 0 or absent.
ReturnedCallClassified ==
    \A k \in 1..Len(calls) :
      calls[k].outcome.kind = "return" =>
        LET row == df.rows[calls[k].row]
            user == user_name_of(row, calls[k].email)
            c == calls[k].outcome.count
        IN  /\ Cardinality(LinesOf(calls[k].row)) = 1
            /\ \A j \in LinesOf(calls[k].row) :
                 update_log[j] =
                   IF c.present /\ c.value > 0
                   THEN [kind |-> "Updated", user |-> user, n |-> Len(calls[k].payload),
                         labs |-> DictKeys(calls[k].payload)]
                   ELSE [kind |-> "NoNew", user |-> user]

\* C3: a run that ends with an error response issued no update call, left the
\* table as it was and ran the loop body for no row; when the client is
\* missing or the probe finds no record, the file was not parsed either.
NoPartialProcessing ==
    (Ended /\ result.status # 200) =>
      /\ calls = <<>>
      /\ store = store0
      /\ visited = <<>>
      /\ update_log = <<>>
      /\ result.kind \in {"NotInitialized", "SchemaUnavailable"} => df = NoFrame

\* C3 witness: a populated table, a file lacking a required column.
MissingColumnsEnded ==
    /\ Ended
    /\ result.kind = "MissingColumns"
    /\ store.recs # <<>>
    /\ df.columns # {}

\* C4: a row with a non-blank email gets exactly one update call when one of
\* its label pieces normalizes to a key of the column map and none otherwise;
\* the call filters on the trimmed email and its payload is exactly the mapped
\* columns of the matching labels, each set to "Yes".
ExactPayload ==
    \A i \in Range(visited) :
      LET row == df.rows[i]
          email == str_strip(row.email, Whitespace)
          matching == Matching(row)
          fields == { dict_get(column_map, normalize_name(p)) : p \in matching }
      IN  (pd_notna(row.email) /\ email # <<>>) =>
            /\ Cardinality(CallsOf(i)) = IF matching # {} THEN 1 ELSE 0
            /\ \A k \in CallsOf(i) :
                 /\ calls[k].email = email
                 /\ Range(calls[k].payload) = { <<f, Yes>> : f \in fields }
                 /\ Len(calls[k].payload) = Cardinality(fields)

\* C4 witness: the row a@x with "Foo | [Skill Badge] Bar" against the columns
\* foo and Bar: one call, both columns.
TwoBadgesOneCall ==
    /\ Len(visited) = 1
    /\ df.rows[1].labs = <<"F", "o", "o", " ", "|", " ", "[", "S", "k", "i", "l", "l", " ", "B", "a", "d", "g", "e", "]", " ", "B", "a", "r">>
    /\ Len(calls) = 1
    /\ calls[1].email = <<"a", "@", "x">>
    /\ Range(calls[1].payload) = { << <<"f", "o", "o">>, Yes >>, << <<"B", "a", "r">>, Yes >> }

\* C5: a row whose email cell is missing, empty or whitespace only causes no
\* update call and no line in the per-row messages.
BlankEmailSkipped ==
    \A i \in Range(visited) :
      LET row == df.rows[i]
      IN  (~pd_notna(row.email) \/ str_strip(row.email, Whitespace) = <<>>) =>
            /\ CallsOf(i) = {}
            /\ LinesOf(i) = {}

\* C6: the mismatch set holds exactly the quoted, trimmed, verbatim unmatched
\* label pieces of the processed rows; no payload holds a column that no
\* matching label of its row maps to; and the reported list is that set,
\* strictly ascending (so each label once), with no matched label in it.
UnmatchedLabelsReported ==
    LET done == { i \in Range(visited) : Processed(df.rows[i]) }
        unmatched == UNION { Unmatched(df.rows[i]) : i \in done }
        matched == UNION { Matching(df.rows[i]) : i \in done }
    IN  /\ pc \in {"loop", "done"} =>
             mismatched_labs_log = { Quoted(p) : p \in unmatched }
        /\ \A k \in 1..Len(calls) :
             LET mapped == { dict_get(column_map, normalize_name(p)) :
                               p \in Matching(df.rows[calls[k].row]) }
             IN  \A item \in Range(calls[k].payload) : item[1] \in mapped
        /\ EndedOk =>
             LET L == result.mismatched_lab_names
             IN  /\ Range(L) = { Quoted(p) : p \in unmatched }
                 /\ \A a, b \in 1..Len(L) : a < b => str_less(L[a], L[b])
                 /\ \A p \in matched : Quoted(p) \notin Range(L)

\* C6 witness: two rows that both carry the unmatched label Zed, one of them
\* a second unmatched label that sorts before it.
SharedMismatchReported ==
    /\ EndedOk
    /\ Len(df.rows) = 2
    /\ \A i \in 1..2 : Processed(df.rows[i]) /\ <<"Z", "e", "d">> \in Unmatched(df.rows[i])
    /\ <<"A", "b">> \in Unmatched(df.rows[1])
    /\ Len(result.mismatched_lab_names) >= 2

Applied(c) ==
    /\ c.outcome.kind = "return"
    /\ c.outcome.data # <<>>
    /\ NameCol \in DOMAIN c.outcome.data[1]
    /\ c.outcome.count.present
    /\ c.outcome.count.value > 0

NormalizeIdempotent ==
    /\ npc = "twice" => key2 = key
    /\ npc \in {"once", "twice"} =>
         /\ Range(key) \subseteq AlnumLower \cup {"_"}
         /\ key # <<>> => key[1] # "_" /\ key[Len(key)] # "_"
         /\ \A i \in 1..(Len(key) - 1) : ~(key[i] = "_" /\ key[i + 1] = "_")

\* C8 witness: a mixed-case label whose synonym appears once the tag is
\* removed, normalized twice.
TaggedLabelNormalized ==
    /\ npc = "twice"
    /\ raw = <<"G", "e", "n", "[", "S", "k", "i", "l", "l", " ", "B", "a", "d", "g", "e", "]", " ", "A", "I">>
    /\ key = <<"g", "e", "n", "a", "i">>
    /\ key2 = <<"g", "e", "n", "a", "i">>

\* C9: the empty string is never a key of the column map, and a label piece
\* whose key is empty is recorded as a mismatch, never staged.
EmptyKeyMatchesNothing ==
    /\ ~DictHas(column_map, <<>>)
    /\ \A i \in Range(visited) :
         Processed(df.rows[i]) =>
           \A p \in Pieces(df.rows[i]) :
             normalize_name(p) = <<>> => Quoted(p) \in mismatched_labs_log

\* C10: no update payload names the email or the name column, and the emails
\* in the table stay what they were.
IdentityNeverOverwritten ==
    /\ \A k \in 1..Len(calls) :
         ~DictHas(calls[k].payload, EmailCol) /\ ~DictHas(calls[k].payload, NameCol)
    /\ Len(store.recs) = Len(store0.recs)
    /\ \A i \in 1..Len(store.recs) : store.recs[i][EmailCol] = store0.recs[i][EmailCol]

====
